---- MODULE Spec2Model ----
(***************************************************************************)
(* Model of the auto chart bump of charts-build-scripts (package auto):    *)
(*   - parsePackageYaml / checkUpstreamOptions, the package.yaml validator *)
(*   - calculateNextVersion / loadVersions / parseRepoPrefixVersionIfAny / *)
(*     applyVersionRules, the version calculator.                          *)
(*                                                                         *)
(* A Go string that the code splits, searches or parses is a sequence of   *)
(* one-character strings, so that strings.Contains, strings.Split,         *)
(* strings.HasSuffix and semver.Make are computed character by character.  *)
(* Go strings that are only compared with "" or nil are TLA+ strings.      *)
(* The input alphabet is the digits, ".", "+", "u", "p", "x", "r", "g",    *)
(* "i", "t": no input holds "-", so the pre-release part of a semantic     *)
(* version is always empty and is left out of the version record.          *)
(***************************************************************************)
EXTENDS Integers, Sequences, FiniteSets, TLC

VARIABLES
    packages,                 \* argument of parsePackageYaml
    Pkg,                      \* b.Pkg (the manifest part)
    assetsVersion,            \* b.assetsVersionsMap[b.targetChart][0].Version
    upstreamVersion,          \* b.Pkg.Chart.GetUpstreamVersion()
    versionRule,              \* b.versionRules.Rules[b.versionRules.BranchVersion].Min
    versions,                 \* b.versions
    ChartVersion,             \* b.releaseYaml.ChartVersion
    AutoGeneratedBumpVersion, \* b.Pkg.AutoGeneratedBumpVersion
    err,                      \* what the call returned
    pc                        \* "ready" before the call, "done" after it

vars == <<packages, Pkg, assetsVersion, upstreamVersion, versionRule, versions,
          ChartVersion, AutoGeneratedBumpVersion, err, pc>>

----------------------------------------------------------------------------
(* Bounds *)

\* upstream version components range over 0..MaxNum
MaxNum == 1
\* longest list of additional charts of a manifest
MaxAdditionalCharts == 2
\* most fields of one manifest that break a requirement at once
MaxViolations == 2
\* longest list of packages handed to parsePackageYaml
MaxPackages == 2

----------------------------------------------------------------------------
(* Go strings and the strings package *)

Digits == <<"0", "1", "2", "3", "4", "5", "6", "7", "8", "9">>
numbers == {Digits[i] : i \in 1..10}
alphanum == numbers \cup {"u", "p", "x", "r", "g", "i", "t", "-"}

Min(S) == CHOOSE x \in S : \A y \in S : x <= y

\* the least element of hits, 0 when there is none
firstOf(hits) == IF hits = {} THEN 0 ELSE Min(hits)

\* strings.Index: position of the first occurrence of sub in s, 0 when absent
Index(s, sub) ==
    firstOf({i \in 1..(Len(s) - Len(sub) + 1) : SubSeq(s, i, i + Len(sub) - 1) = sub})

Contains(s, sub) == Index(s, sub) # 0

HasSuffix(s, suffix) ==
    /\ Len(s) >= Len(suffix)
    /\ SubSeq(s, Len(s) - Len(suffix) + 1, Len(s)) = suffix

\* the text of s before and after the first occurrence of sep, which s holds
Before(s, sep) == SubSeq(s, 1, Index(s, sep) - 1)
After(s, sep) == SubSeq(s, Index(s, sep) + Len(sep), Len(s))

RECURSIVE SplitN(_, _, _)
\* strings.SplitN for a non-empty separator and n >= 1
SplitN(s, sep, n) ==
    IF n = 1 \/ ~Contains(s, sep)
    THEN <<s>>
    ELSE <<Before(s, sep)>> \o SplitN(After(s, sep), sep, n - 1)

RECURSIVE Split(_, _)
\* strings.Split for a non-empty separator: cuts at every occurrence
Split(s, sep) ==
    IF ~Contains(s, sep)
    THEN <<s>>
    ELSE <<Before(s, sep)>> \o Split(After(s, sep), sep)

RECURSIVE Join(_, _)
Join(parts, sep) ==
    IF parts = <<>> THEN <<>>
    ELSE IF Len(parts) = 1 THEN parts[1]
    ELSE parts[1] \o sep \o Join(Tail(parts), sep)

containsOnly(s, set) == \A i \in 1..Len(s) : s[i] \in set

hasLeadingZeroes(s) == Len(s) > 1 /\ s[1] = "0"

DigitValue(c) == CHOOSE d \in 0..9 : Digits[d + 1] = c

RECURSIVE ParseUint(_)
ParseUint(s) ==
    IF s = <<>> THEN 0
    ELSE ParseUint(SubSeq(s, 1, Len(s) - 1)) * 10 + DigitValue(s[Len(s)])

RECURSIVE FormatUint(_)
FormatUint(n) ==
    IF n < 10 THEN <<Digits[n + 1]>>
    ELSE FormatUint(n \div 10) \o <<Digits[(n % 10) + 1]>>

Marker == <<"+", "u", "p">>
Dot == <<".">>
Plus == <<"+">>

----------------------------------------------------------------------------
(* github.com/blang/semver as the calculator uses it *)

NilSemver == [set |-> FALSE, Major |-> 0, Minor |-> 0, Patch |-> 0, Build |-> <<>>]

validNumber(s) == s # <<>> /\ containsOnly(s, numbers) /\ ~hasLeadingZeroes(s)

validBuild(build) ==
    \A i \in 1..Len(build) : build[i] # <<>> /\ containsOnly(build[i], alphanum)

\* semver.Parse, the checks of the three numbers and of the build metadata
semverChecked(majorStr, minorStr, patchStr, build) ==
    IF /\ validNumber(majorStr)
       /\ validNumber(minorStr)
       /\ validNumber(patchStr)
       /\ validBuild(build)
    THEN [err |-> FALSE,
          svr |-> [set |-> TRUE,
                   Major |-> ParseUint(majorStr),
                   Minor |-> ParseUint(minorStr),
                   Patch |-> ParseUint(patchStr),
                   Build |-> build]]
    ELSE [err |-> TRUE, svr |-> NilSemver]

\* semver.Parse, the third part cut at its first "+": the patch number, the build metadata
patchOf(rest) == IF Contains(rest, Plus) THEN Before(rest, Plus) ELSE rest
buildOf(rest) == IF Contains(rest, Plus) THEN Split(After(rest, Plus), Dot) ELSE <<>>

\* semver.Parse, after the text was split into major.minor.(patch+build)
semverParts(parts) ==
    IF Len(parts) # 3 THEN [err |-> TRUE, svr |-> NilSemver]
    ELSE semverChecked(parts[1], parts[2], patchOf(parts[3]), buildOf(parts[3]))

\* semver.Make: [err, svr]; err is TRUE when the text is no semantic version
semverMake(txt) ==
    IF txt = <<>> THEN [err |-> TRUE, svr |-> NilSemver]
    ELSE semverParts(SplitN(txt, Dot, 3))

\* Version.String
semverString(svr) ==
    FormatUint(svr.Major) \o Dot \o FormatUint(svr.Minor) \o Dot \o FormatUint(svr.Patch)
        \o (IF svr.Build = <<>> THEN <<>> ELSE Plus \o Join(svr.Build, Dot))

\* Version.LT: major, minor, patch in that order; build metadata is ignored
semverLT(a, b) ==
    \/ a.Major < b.Major
    \/ a.Major = b.Major /\ a.Minor < b.Minor
    \/ a.Major = b.Major /\ a.Minor = b.Minor /\ a.Patch < b.Patch

----------------------------------------------------------------------------
(* The errors *)

Nil == "nil"
errNoPackage == "errNoPackage"
errMultiplePackages == "errMultiplePackages"
errFalseAuto == "errFalseAuto"
errPackageName == "errPackageName"
errPackageChartVersion == "errPackageChartVersion"
errPackageVersion == "errPackageVersion"
errPackegeDoNotRelease == "errPackegeDoNotRelease"
errChartWorkDir == "errChartWorkDir"
errChartURL == "errChartURL"
errChartRepoCommit == "errChartRepoCommit"
errChartRepoBranch == "errChartRepoBranch"
errChartSubDir == "errChartSubDir"
errAdditionalChartWorkDir == "errAdditionalChartWorkDir"
errCRDWorkDir == "errCRDWorkDir"
errAdditionalChartCRDValidation == "errAdditionalChartCRDValidation"
errChartLatestVersion == "errChartLatestVersion"
errChartUpstreamVersion == "errChartUpstreamVersion"
errChartUpstreamVersionWrong == "errChartUpstreamVersionWrong"
errBumpVersion == "errBumpVersion"
\* the error semver.Make returns
errSemver == "errSemver"
\* semver.MustParse panics instead of returning
panicMustParse == "panicMustParse"

----------------------------------------------------------------------------
(* The version calculator: chart_bump_versions.go *)

\* type version: the text and its parsed form
EmptyVersion == [txt |-> <<>>, svr |-> NilSemver]

\* loadVersions starts from four empty versions
EmptyVersions ==
    [latest |-> EmptyVersion, latestRepoPrefix |-> EmptyVersion,
     toRelease |-> EmptyVersion, toReleaseRepoPrefix |-> EmptyVersion]

\* version.updateSemver, given what semver.Make returned
setSemver(v, made) ==
    IF made.err THEN [err |-> errSemver, v |-> v]
    ELSE [err |-> Nil, v |-> [v EXCEPT !.svr = made.svr]]

\* version.updateSemver: svr is replaced only when the text parses
updateSemver(v) == setSemver(v, semverMake(v.txt))

\* version.updateTxt
updateTxt(v) == [v EXCEPT !.txt = semverString(v.svr)]

\* b.versions.<name>.txt = txt
setTxt(vs, name, txt) == [vs EXCEPT ![name].txt = txt]

\* what "if err := b.versions.<name>.updateSemver(); err != nil { return err }" leaves
updated(vs, name, u) == [versions |-> [vs EXCEPT ![name] = u.v], err |-> u.err]
updateSemverOf(vs, name) == updated(vs, name, updateSemver(vs[name]))

parseRepoPrefixVersionIfAny(unparsedVersion) ==
    IF Contains(unparsedVersion, Marker)
    THEN [repoPrefix |-> Split(unparsedVersion, Marker)[1],
          version |-> Split(unparsedVersion, Marker)[2],
          found |-> TRUE]
    ELSE [repoPrefix |-> <<>>, version |-> unparsedVersion, found |-> FALSE]

(* loadVersions. Each step takes r = [versions, err], what the steps before it
   left, and does nothing once one of them has returned an error. *)

\* the latest version of the index.yaml must not be empty
readLatest(vs, latestUnparsedVersion) ==
    [versions |-> vs,
     err |-> IF latestUnparsedVersion = <<>> THEN errChartLatestVersion ELSE Nil]

\* the repository prefix of the latest version, if it has one
loadLatestRepoPrefix(r, parsed) ==
    IF r.err # Nil \/ ~parsed.found THEN r
    ELSE updateSemverOf(setTxt(r.versions, "latestRepoPrefix", parsed.repoPrefix),
                        "latestRepoPrefix")

\* the latest version without its repository prefix
loadLatestVersion(r, parsed) ==
    IF r.err # Nil THEN r
    ELSE updateSemverOf(setTxt(r.versions, "latest", parsed.version), "latest")

loadLatest(vs, latestUnparsedVersion) ==
    loadLatestVersion(
        loadLatestRepoPrefix(readLatest(vs, latestUnparsedVersion),
                             parseRepoPrefixVersionIfAny(latestUnparsedVersion)),
        parseRepoPrefixVersionIfAny(latestUnparsedVersion))

\* the version to release comes from the chart owner upstream repository
loadToRelease(r, upstream) ==
    IF r.err # Nil THEN r
    ELSE IF upstream = <<>>
         THEN [versions |-> setTxt(r.versions, "toRelease", upstream),
               err |-> errChartUpstreamVersion]
    ELSE updateSemverOf(setTxt(r.versions, "toRelease", upstream), "toRelease")

\* the version to release must not contain a repository prefix
checkUpstreamPrefix(r) ==
    IF r.err # Nil THEN r
    ELSE IF parseRepoPrefixVersionIfAny(r.versions.toRelease.txt).found
         THEN [r EXCEPT !.err = errChartUpstreamVersionWrong]
    ELSE r

\* a regression check that compares the two versions the other way round
checkRegression_Reversed(r) ==
    IF r.err # Nil THEN r
    ELSE IF semverLT(r.versions.latest.svr, r.versions.toRelease.svr)
         THEN [r EXCEPT !.err = errBumpVersion]
    ELSE r

\* the version to release must not be below the latest version
checkRegression(r) ==
    IF r.err # Nil THEN r
    ELSE IF semverLT(r.versions.toRelease.svr, r.versions.latest.svr)
         THEN [r EXCEPT !.err = errBumpVersion]
    ELSE r

\* a loadVersions that compares with the latest version before it looks for a prefix
loadVersions_RegressionFirst(latestUnparsedVersion, upstream) ==
    checkUpstreamPrefix(
        checkRegression(
            loadToRelease(loadLatest(EmptyVersions, latestUnparsedVersion), upstream)))

loadVersions(latestUnparsedVersion, upstream) ==
    checkRegression(
        checkUpstreamPrefix(
            loadToRelease(loadLatest(EmptyVersions, latestUnparsedVersion), upstream)))

\* a bump whose minor bump forgets to reset the patch component
bumpSemver_KeepsPatch(prefix, majorBump, minorBump, patchBump) ==
    IF minorBump \/ majorBump THEN [prefix EXCEPT !.Minor = @ + 1]
    ELSE IF patchBump THEN [prefix EXCEPT !.Patch = @ + 1]
    ELSE prefix

\* applyVersionRules, the two if statements that bump the repository prefix
bumpSemver(prefix, majorBump, minorBump, patchBump) ==
    IF minorBump \/ majorBump THEN [prefix EXCEPT !.Minor = @ + 1, !.Patch = 0]
    ELSE IF patchBump /\ ~majorBump /\ ~minorBump THEN [prefix EXCEPT !.Patch = @ + 1]
    ELSE prefix

\* applyVersionRules, the bump of the repository prefix carried over from the latest version
bumpRepoPrefix(vs) ==
    [vs EXCEPT !.toReleaseRepoPrefix =
        updateTxt([@ EXCEPT !.svr =
            bumpSemver(@, vs.toRelease.svr.Major > vs.latest.svr.Major,
                          vs.toRelease.svr.Minor > vs.latest.svr.Minor,
                          vs.toRelease.svr.Patch > vs.latest.svr.Patch)])]

\* applyVersionRules, after the latest repository prefix was carried over and parsed
bumpCarriedOver(r) ==
    IF r.err # Nil THEN r ELSE [r EXCEPT !.versions = bumpRepoPrefix(r.versions)]

\* an applyRule that bumps the rule's version too when the branch line changes
applyRule_BumpsOnTransition(vs, repoPrefixVersionRule, rule) ==
    IF rule.err THEN [versions |-> vs, err |-> errSemver]
    ELSE IF \/ vs.latestRepoPrefix.txt = <<>>
            \/ rule.svr.Major # vs.latestRepoPrefix.svr.Major
    THEN bumpCarriedOver(
             updateSemverOf(setTxt(vs, "toReleaseRepoPrefix", repoPrefixVersionRule),
                            "toReleaseRepoPrefix"))
    ELSE bumpCarriedOver(
             updateSemverOf(setTxt(vs, "toReleaseRepoPrefix", vs.latestRepoPrefix.txt),
                            "toReleaseRepoPrefix"))

\* applyVersionRules, given what semver.Make returned for the rule
applyRule(vs, repoPrefixVersionRule, rule) ==
    IF rule.err THEN [versions |-> vs, err |-> errSemver]
    ELSE IF \/ vs.latestRepoPrefix.txt = <<>>
            \/ rule.svr.Major # vs.latestRepoPrefix.svr.Major
    THEN updateSemverOf(setTxt(vs, "toReleaseRepoPrefix", repoPrefixVersionRule),
                        "toReleaseRepoPrefix")
    ELSE bumpCarriedOver(
             updateSemverOf(setTxt(vs, "toReleaseRepoPrefix", vs.latestRepoPrefix.txt),
                            "toReleaseRepoPrefix"))

\* applyVersionRules, not called when loadVersions returned an error
applyVersionRules(r, repoPrefixVersionRule) ==
    IF r.err # Nil THEN r
    ELSE applyRule(r.versions, repoPrefixVersionRule, semverMake(repoPrefixVersionRule))

\* a targetVersion that joins the two parts with "+" alone
targetVersion_PlusOnly(vs) == vs.toReleaseRepoPrefix.txt \o Plus \o vs.toRelease.txt

\* calculateNextVersion, the full version to release
targetVersion(vs) == vs.toReleaseRepoPrefix.txt \o Marker \o vs.toRelease.txt

\* a writeTarget that writes the release descriptor before it parses the target
writeTarget_BeforeParse(vs, target, targetSemver, chartVersion, bumpVersion) ==
    IF targetSemver.err
    THEN [versions |-> vs, err |-> panicMustParse,
          ChartVersion |-> target, AutoGeneratedBumpVersion |-> bumpVersion]
    ELSE [versions |-> vs, err |-> Nil,
          ChartVersion |-> target, AutoGeneratedBumpVersion |-> targetSemver.svr]

\* calculateNextVersion, semver.MustParse and the two assignments after it
writeTarget(vs, target, targetSemver, chartVersion, bumpVersion) ==
    IF targetSemver.err
    THEN [versions |-> vs, err |-> panicMustParse,
          ChartVersion |-> chartVersion, AutoGeneratedBumpVersion |-> bumpVersion]
    ELSE [versions |-> vs, err |-> Nil,
          ChartVersion |-> target, AutoGeneratedBumpVersion |-> targetSemver.svr]

\* calculateNextVersion, after loadVersions and applyVersionRules
buildTarget(r, chartVersion, bumpVersion) ==
    IF r.err # Nil
    THEN [versions |-> r.versions, err |-> r.err,
          ChartVersion |-> chartVersion, AutoGeneratedBumpVersion |-> bumpVersion]
    ELSE writeTarget(r.versions, targetVersion(r.versions),
                     semverMake(targetVersion(r.versions)), chartVersion, bumpVersion)

\* calculateNextVersion: what it leaves in b.versions, in the two output fields, and returns
calculateNextVersion(latestUnparsedVersion, upstream, rule, chartVersion, bumpVersion) ==
    buildTarget(applyVersionRules(loadVersions(latestUnparsedVersion, upstream), rule),
                chartVersion, bumpVersion)

----------------------------------------------------------------------------
(* Inputs of the calculator *)

Ver(major, minor, patch) ==
    FormatUint(major) \o Dot \o FormatUint(minor) \o Dot \o FormatUint(patch)

X == <<"x">>

\* upstream versions: every version over 0..MaxNum and the versions 1.2.3, 1.2.4, 1.3.0
BareVersions ==
    {Ver(a, b, c) : a \in 0..MaxNum, b \in 0..MaxNum, c \in 0..MaxNum}
        \cup {Ver(1, 2, 3), Ver(1, 2, 4), Ver(1, 3, 0)}

\* repository prefixes of the branch lines 104 and 105
RepoPrefixes == {Ver(104, 2, 0), Ver(104, 2, 1), Ver(104, 9, 9), Ver(105, 0, 0)}

LatestVersions ==
    BareVersions
        \cup {p \o Marker \o v : p \in RepoPrefixes, v \in BareVersions}
        \cup { <<>>,                                                   \* nothing published
               X,                                                      \* no version
               Ver(1, 0, 0) \o Plus \o X,                              \* build metadata
               Marker \o Ver(1, 0, 0),                                 \* empty prefix
               X \o Marker \o Ver(1, 0, 0),                            \* prefix is no version
               Ver(104, 2, 0) \o Marker \o X,                          \* upstream part is no version
               Ver(104, 2, 0) \o Plus \o X \o Marker \o Ver(1, 0, 0),   \* prefix with build metadata
               Ver(104, 2, 0) \o Marker \o Ver(1, 0, 0) \o Marker \o Ver(0, 0, 1),
               Ver(104, 2, 0) \o Marker \o Ver(0, 0, 1) \o Marker \o X }

UpstreamVersions ==
    BareVersions
        \cup { <<>>,
               X,
               <<"0">> \o Ver(1, 0, 0),                                \* leading zero
               Ver(1, 1, 1) \o Plus \o X,                              \* build metadata
               Ver(0, 0, 0) \o Marker \o <<"1">>,                      \* marker, parses
               Ver(1, 1, 1) \o Marker \o Ver(1, 0, 0),                 \* marker, parses
               X \o Marker \o Ver(1, 0, 0),                            \* marker, no version
               Ver(1, 1, 1) \o Marker \o Ver(1, 0, 0) \o Marker \o Ver(1, 0, 0) }

VersionRules == {Ver(104, 0, 0), Ver(105, 0, 0), Ver(105, 0, 0) \o Plus \o X, X}

\* the output fields before the call: never written, or written by an earlier bump
PriorChartVersions == {<<>>, Ver(104, 1, 0) \o Marker \o Ver(0, 0, 0)}

----------------------------------------------------------------------------
(* The calculator as a state machine: one call of calculateNextVersion *)

\* a manifest that passes parsePackageYaml
ValidUpstream ==
    [URL |-> <<"r", ".", "g", "i", "t">>, Commit |-> "nil",
     ChartRepoBranch |-> "main", Subdirectory |-> "charts"]

ValidPkg ==
    [Auto |-> TRUE, Name |-> "chart", Version |-> "nil", PackageVersion |-> "nil",
     DoNotRelease |-> FALSE,
     Chart |-> [WorkingDir |-> "charts", Upstream |-> ValidUpstream],
     AdditionalCharts |-> <<>>]

InitCalc ==
    /\ packages = <<ValidPkg>>
    /\ Pkg = ValidPkg
    /\ assetsVersion \in LatestVersions
    /\ upstreamVersion \in UpstreamVersions
    /\ versionRule \in VersionRules
    /\ versions = EmptyVersions
    /\ ChartVersion \in PriorChartVersions
    /\ AutoGeneratedBumpVersion = semverMake(ChartVersion).svr
    /\ err = Nil
    /\ pc = "ready"

CalculateNextVersion ==
    /\ pc = "ready"
    /\ LET r == calculateNextVersion(assetsVersion, upstreamVersion, versionRule,
                                     ChartVersion, AutoGeneratedBumpVersion)
       IN  /\ versions' = r.versions
           /\ ChartVersion' = r.ChartVersion
           /\ AutoGeneratedBumpVersion' = r.AutoGeneratedBumpVersion
           /\ err' = r.err
    /\ pc' = "done"
    /\ UNCHANGED <<packages, Pkg, assetsVersion, upstreamVersion, versionRule>>

NextCalc == CalculateNextVersion

Spec == InitCalc /\ [][NextCalc]_vars

----------------------------------------------------------------------------
(* Properties of the calculator, checked under Spec *)

Done == pc = "done"
Succeeded == pc = "done" /\ err = Nil
\* load and rule application both returned nil
RulesApplied == pc = "done" /\ err \in {Nil, panicMustParse}

HasMarker(s) == Contains(s, Marker)
\* the text after the first "+up" of s, the whole of s when it has none
BareOf(s) == IF HasMarker(s) THEN SubSeq(s, Index(s, Marker) + Len(Marker), Len(s)) ELSE s
\* the text before the first "+up" of s
PrefixOf(s) == SubSeq(s, 1, Index(s, Marker) - 1)

\* the latest published version is well formed: its bare part parses, and its prefix if any
LatestParses ==
    /\ ~semverMake(BareOf(assetsVersion)).err
    /\ HasMarker(assetsVersion) => ~semverMake(PrefixOf(assetsVersion)).err
UpstreamParses == ~semverMake(upstreamVersion).err
UpstreamRegresses ==
    semverLT(semverMake(upstreamVersion).svr, semverMake(BareOf(assetsVersion)).svr)

\* the branch line changes: no prefix so far, or a prefix of another major than the rule's
Transition ==
    \/ ~HasMarker(assetsVersion)
    \/ versions.latestRepoPrefix.svr.Major # semverMake(versionRule).svr.Major

PatchBumped ==
    versions.toReleaseRepoPrefix.svr = [versions.latestRepoPrefix.svr EXCEPT !.Patch = @ + 1]
MinorBumped ==
    versions.toReleaseRepoPrefix.svr =
        [versions.latestRepoPrefix.svr EXCEPT !.Minor = @ + 1, !.Patch = 0]

\* C1 as stated: for a latest and an upstream version that both parse, success means the
\* upstream version is not below the latest one, and an upstream version below the latest
\* one always ends in errBumpVersion.
C1_RegressionAlwaysErrBumpVersion ==
    (Done /\ LatestParses /\ UpstreamParses) =>
        /\ err = Nil => ~UpstreamRegresses
        /\ UpstreamRegresses => err = errBumpVersion

\* C1 amended: success means the upstream version is not below the latest one; an upstream
\* version below the latest one ends in errBumpVersion when it carries no "+up" marker, and
\* every parsing upstream version that carries the marker ends in
\* errChartUpstreamVersionWrong, below the latest version or not.
C1_NoRegression ==
    (Done /\ LatestParses /\ UpstreamParses) =>
        /\ err = Nil => ~UpstreamRegresses
        /\ (UpstreamRegresses /\ ~HasMarker(upstreamVersion)) => err = errBumpVersion
        /\ HasMarker(upstreamVersion) => err = errChartUpstreamVersionWrong

C1_Witness ==
    /\ Done /\ LatestParses /\ UpstreamParses
    /\ HasMarker(assetsVersion) /\ ~HasMarker(upstreamVersion)
    /\ UpstreamRegresses
    /\ err = errBumpVersion

\* C2: a call that fails leaves releaseYaml.ChartVersion and Pkg.AutoGeneratedBumpVersion
\* as they were before the call; a call that succeeds writes the composed version to both.
C2_NoPartialOutput ==
    [][(pc = "ready" /\ pc' = "done") =>
         IF err' # Nil
         THEN /\ ChartVersion' = ChartVersion
              /\ AutoGeneratedBumpVersion' = AutoGeneratedBumpVersion
         ELSE /\ ChartVersion' =
                    versions'.toReleaseRepoPrefix.txt \o Marker \o versions'.toRelease.txt
              /\ AutoGeneratedBumpVersion'.set
              /\ AutoGeneratedBumpVersion' = semverMake(ChartVersion').svr]_vars

\* the target did not parse, and the fields still hold what an earlier bump wrote
C2_Witness ==
    /\ Done /\ err = panicMustParse
    /\ ChartVersion # <<>> /\ ChartVersion \in PriorChartVersions
    /\ AutoGeneratedBumpVersion.set

\* C5 as stated: an input with the marker is cut at its first occurrence only, so that
\* repoPrefix + "+up" + version is the input again; an input without it comes back whole.
C5_SplitsAtFirstMarkerOnly ==
    Done =>
        LET r == parseRepoPrefixVersionIfAny(assetsVersion)
        IN  IF HasMarker(assetsVersion)
            THEN /\ r.found
                 /\ r.repoPrefix = PrefixOf(assetsVersion)
                 /\ r.version = BareOf(assetsVersion)
                 /\ r.repoPrefix \o Marker \o r.version = assetsVersion
            ELSE r = [repoPrefix |-> <<>>, version |-> assetsVersion, found |-> FALSE]

\* C6: on a branch-line transition the new repo-prefix is the rule's version, text and
\* numbers, whatever the upstream delta; and the new repo-prefix's major differs from the
\* latest repo-prefix's major in that case only.
C6_TransitionAdoptsRule ==
    RulesApplied =>
        /\ Transition =>
             /\ versions.toReleaseRepoPrefix.txt = versionRule
             /\ versions.toReleaseRepoPrefix.svr = semverMake(versionRule).svr
        /\ ( /\ HasMarker(assetsVersion)
             /\ versions.toReleaseRepoPrefix.svr.Major # versions.latestRepoPrefix.svr.Major )
               => Transition

\* 104.x to 105.0.0 with a patch delta upstream
C6_Witness ==
    /\ Succeeded /\ Transition /\ HasMarker(assetsVersion)
    /\ versions.latestRepoPrefix.svr.Major = 104
    /\ versions.toReleaseRepoPrefix.txt = Ver(105, 0, 0)
    /\ versions.toRelease.svr.Patch > versions.latest.svr.Patch

\* C7: in a continuation, an upstream version that is larger in the patch component only
\* gives the latest repo-prefix with patch + 1; one whose minor or major component is
\* larger gives the latest repo-prefix with minor + 1 and patch 0; the major stays.
C7_ContinuationBump ==
    (RulesApplied /\ ~Transition) =>
        LET l == versions.latest.svr
            t == versions.toRelease.svr
            p == versions.latestRepoPrefix.svr
            n == versions.toReleaseRepoPrefix
            patched == [p EXCEPT !.Patch = p.Patch + 1]
            minored == [p EXCEPT !.Minor = p.Minor + 1, !.Patch = 0]
        IN  /\ (t.Major = l.Major /\ t.Minor = l.Minor /\ t.Patch > l.Patch)
                 => n.svr = patched /\ n.txt = semverString(patched)
            /\ (t.Minor > l.Minor \/ t.Major > l.Major)
                 => n.svr = minored /\ n.txt = semverString(minored)
            /\ n.svr.Major = p.Major

\* latest 104.2.0+up1.2.3 and upstream 1.3.0 give 104.3.0+up1.3.0
C7_Witness ==
    /\ Succeeded
    /\ assetsVersion = Ver(104, 2, 0) \o Marker \o Ver(1, 2, 3)
    /\ upstreamVersion = Ver(1, 3, 0)
    /\ versionRule = Ver(104, 0, 0)
    /\ ChartVersion = <<"1", "0", "4", ".", "3", ".", "0", "+", "u", "p", "1", ".", "3", ".", "0">>

\* C8 as stated: every successful continuation applies exactly one of the two bumps.
C8_ExactlyOneBump ==
    (Succeeded /\ ~Transition) => (PatchBumped /\ ~MinorBumped) \/ (MinorBumped /\ ~PatchBumped)

\* C9 as stated: with a well-formed latest version, every non-empty upstream version that
\* holds "+up" ends in errChartUpstreamVersionWrong, and an empty one in
\* errChartUpstreamVersion.
C9_MarkerAlwaysUnexpectedPrefix ==
    (Done /\ LatestParses) =>
        /\ upstreamVersion = <<>> => err = errChartUpstreamVersion
        /\ HasMarker(upstreamVersion) => err = errChartUpstreamVersionWrong

\* C9 amended: with a well-formed latest version, an empty upstream version ends in
\* errChartUpstreamVersion; an upstream version that holds "+up" ends in the parse error
\* when it is no semantic version, and in errChartUpstreamVersionWrong when it is one,
\* below the latest version or not.
C9_MarkerAfterParse ==
    (Done /\ LatestParses) =>
        /\ upstreamVersion = <<>> => err = errChartUpstreamVersion
        /\ HasMarker(upstreamVersion) =>
             err = IF UpstreamParses THEN errChartUpstreamVersionWrong ELSE errSemver

\* an upstream version with the marker that is below the latest version
C9_Witness ==
    /\ Done /\ LatestParses /\ UpstreamParses
    /\ HasMarker(upstreamVersion)
    /\ semverLT(versions.toRelease.svr, versions.latest.svr)
    /\ err = errChartUpstreamVersionWrong

\* C10: after a success the chart version is toReleaseRepoPrefix + "+up" + toRelease,
\* toRelease holds no "+up", parseRepoPrefixVersionIfAny gives the two parts back, and
\* AutoGeneratedBumpVersion is the parsed chart version.
C10_ResultRoundTrip ==
    Succeeded =>
        /\ ChartVersion = versions.toReleaseRepoPrefix.txt \o Marker \o versions.toRelease.txt
        /\ ~HasMarker(versions.toRelease.txt)
        /\ versions.toRelease.txt = upstreamVersion
        /\ parseRepoPrefixVersionIfAny(ChartVersion) =
             [repoPrefix |-> versions.toReleaseRepoPrefix.txt,
              version |-> versions.toRelease.txt, found |-> TRUE]
        /\ AutoGeneratedBumpVersion.set
        /\ AutoGeneratedBumpVersion = semverMake(ChartVersion).svr

\* a continuation that produced a new version
C10_Witness ==
    /\ Succeeded /\ HasMarker(assetsVersion) /\ ~Transition
    /\ ChartVersion # assetsVersion
    /\ parseRepoPrefixVersionIfAny(ChartVersion).version = upstreamVersion

----------------------------------------------------------------------------
(* The package.yaml validator: parsePackageYaml and checkUpstreamOptions *)

\* a nil pointer field (*string, *semver.Version)
NilPtr == "nil"

\* additionalChart.CRDChartOptions == nil
NilCRDChartOptions ==
    [set |-> FALSE, TemplateDirectory |-> "", CRDDirectory |-> "",
     AddCRDValidationToMainChart |-> FALSE]

GitSuffix == <<".", "g", "i", "t">>

\* checkUpstreamOptions
checkUpstreamOptions(options) ==
    IF ~HasSuffix(options.URL, GitSuffix) THEN errChartURL
    ELSE IF options.Commit # NilPtr THEN errChartRepoCommit
    ELSE IF options.ChartRepoBranch = NilPtr THEN errChartRepoBranch
    ELSE IF options.Subdirectory = NilPtr THEN errChartSubDir
    ELSE Nil

\* a root level check that looks at doNotRelease before the two version fields
checkPackageFields_DoNotReleaseFirst(p) ==
    IF p.Auto = FALSE THEN errFalseAuto
    ELSE IF p.Name = "" THEN errPackageName
    ELSE IF p.DoNotRelease = TRUE THEN errPackegeDoNotRelease
    ELSE IF p.Version # NilPtr THEN errPackageChartVersion
    ELSE IF p.PackageVersion # NilPtr THEN errPackageVersion
    ELSE IF p.Chart.WorkingDir = "" THEN errChartWorkDir
    ELSE Nil

\* parsePackageYaml, the package root level fields check
checkPackageFields(p) ==
    IF p.Auto = FALSE THEN errFalseAuto
    ELSE IF p.Name = "" THEN errPackageName
    ELSE IF p.Version # NilPtr THEN errPackageChartVersion
    ELSE IF p.PackageVersion # NilPtr THEN errPackageVersion
    ELSE IF p.DoNotRelease = TRUE THEN errPackegeDoNotRelease
    ELSE IF p.Chart.WorkingDir = "" THEN errChartWorkDir
    ELSE Nil

\* parsePackageYaml, the CRD chart options of one additional chart
checkCRDChartOptions(options) ==
    IF ~options.set THEN Nil
    ELSE IF options.TemplateDirectory = "" THEN errAdditionalChartWorkDir
    ELSE IF options.CRDDirectory = "" THEN errCRDWorkDir
    ELSE IF options.AddCRDValidationToMainChart = FALSE THEN errAdditionalChartCRDValidation
    ELSE Nil

RECURSIVE firstError(_)
\* the first error of a list of check results, nil when there is none
firstError(errs) ==
    IF errs = <<>> THEN Nil
    ELSE IF Head(errs) # Nil THEN Head(errs)
    ELSE firstError(Tail(errs))

\* a loop that checks the upstream options of every additional chart and the CRD
\* chart options of the charts only after them
checkAdditionalCharts_UpstreamsFirst(charts) ==
    firstError([i \in 1..Len(charts) |-> checkUpstreamOptions(charts[i].Upstream)]
                 \o [i \in 1..Len(charts) |-> checkCRDChartOptions(charts[i].CRDChartOptions)])

RECURSIVE checkAdditionalCharts(_)
\* parsePackageYaml, the loop over b.Pkg.AdditionalCharts
checkAdditionalCharts(charts) ==
    IF charts = <<>> THEN Nil
    ELSE LET additionalChart == Head(charts)
             upstreamErr == checkUpstreamOptions(additionalChart.Upstream)
             crdErr == checkCRDChartOptions(additionalChart.CRDChartOptions)
         IN  IF upstreamErr # Nil THEN upstreamErr
             ELSE IF crdErr # Nil THEN crdErr
             ELSE checkAdditionalCharts(Tail(charts))

\* parsePackageYaml: [Pkg, err], what it leaves in b.Pkg and what it returns
parsePackageYaml(bPkg, pkgs) ==
    IF Len(pkgs) = 0 THEN [Pkg |-> bPkg, err |-> errNoPackage]
    ELSE IF Len(pkgs) > 1 THEN [Pkg |-> bPkg, err |-> errMultiplePackages]
    ELSE LET p == pkgs[1]
             rootErr == checkPackageFields(p)
             upstreamErr == checkUpstreamOptions(p.Chart.Upstream)
         IN  [Pkg |-> p,
              err |-> IF rootErr # Nil THEN rootErr
                      ELSE IF upstreamErr # Nil THEN upstreamErr
                      ELSE checkAdditionalCharts(p.AdditionalCharts)]

----------------------------------------------------------------------------
(* Inputs of the validator: manifests that break up to MaxViolations requirements *)

\* crd[i] tells whether additional chart i declares CRD chart options
Shapes == UNION {[1..n -> BOOLEAN] : n \in 0..MaxAdditionalCharts}

RootFields == <<"Auto", "Name", "Version", "PackageVersion", "DoNotRelease", "WorkingDir">>
UpstreamFields == <<"URL", "Commit", "ChartRepoBranch", "Subdirectory">>
CRDFields == <<"TemplateDirectory", "CRDDirectory", "AddCRDValidationToMainChart">>

FieldsOfChart(i, names) == [k \in 1..Len(names) |-> [chart |-> i, field |-> names[k]]]

RECURSIVE AdditionalFields(_, _)
\* the fields of the additional charts i, i + 1, ... of a manifest of shape crd
AdditionalFields(crd, i) ==
    IF i > Len(crd) THEN <<>>
    ELSE FieldsOfChart(i, UpstreamFields)
             \o (IF crd[i] THEN FieldsOfChart(i, CRDFields) ELSE <<>>)
             \o AdditionalFields(crd, i + 1)

\* the fields of a manifest of shape crd; chart 0 is the package and its main chart
FieldsOf(crd) ==
    FieldsOfChart(0, RootFields) \o FieldsOfChart(0, UpstreamFields) \o AdditionalFields(crd, 1)

RECURSIVE IndexSets(_, _, _)
\* the sets of at most k numbers of from..to
IndexSets(from, to, k) ==
    IF k = 0 THEN {{}}
    ELSE {{}} \cup UNION {{{i} \cup T : T \in IndexSets(i + 1, to, k - 1)} : i \in from..to}

\* the sets of at most k fields of a manifest of shape crd
FieldSets(crd, k) ==
    LET fields == FieldsOf(crd)
    IN  {{fields[i] : i \in I} : I \in IndexSets(1, Len(fields), k)}

MakeUpstream(bad, i) ==
    [URL |-> IF [chart |-> i, field |-> "URL"] \in bad
             THEN <<".", "g", "i", "t", "x">> ELSE <<"r", ".", "g", "i", "t">>,
     Commit |-> IF [chart |-> i, field |-> "Commit"] \in bad THEN "c0ffee" ELSE NilPtr,
     ChartRepoBranch |->
         IF [chart |-> i, field |-> "ChartRepoBranch"] \in bad THEN NilPtr ELSE "main",
     Subdirectory |->
         IF [chart |-> i, field |-> "Subdirectory"] \in bad THEN NilPtr ELSE "charts"]

MakeCRDChartOptions(bad, i) ==
    [set |-> TRUE,
     TemplateDirectory |->
         IF [chart |-> i, field |-> "TemplateDirectory"] \in bad THEN "" ELSE "crd-template",
     CRDDirectory |->
         IF [chart |-> i, field |-> "CRDDirectory"] \in bad THEN "" ELSE "crds",
     AddCRDValidationToMainChart |->
         [chart |-> i, field |-> "AddCRDValidationToMainChart"] \notin bad]

\* the manifest of shape crd whose fields in bad break their requirement
MakePkg(bad, crd) ==
    [Auto |-> [chart |-> 0, field |-> "Auto"] \notin bad,
     Name |-> IF [chart |-> 0, field |-> "Name"] \in bad THEN "" ELSE "chart",
     Version |-> IF [chart |-> 0, field |-> "Version"] \in bad THEN "1.0.0" ELSE NilPtr,
     PackageVersion |->
         IF [chart |-> 0, field |-> "PackageVersion"] \in bad THEN "1" ELSE NilPtr,
     DoNotRelease |-> [chart |-> 0, field |-> "DoNotRelease"] \in bad,
     Chart |-> [WorkingDir |->
                    IF [chart |-> 0, field |-> "WorkingDir"] \in bad THEN "" ELSE "charts",
                Upstream |-> MakeUpstream(bad, 0)],
     AdditionalCharts |->
         [i \in 1..Len(crd) |->
             [Upstream |-> MakeUpstream(bad, i),
              CRDChartOptions |-> IF crd[i] THEN MakeCRDChartOptions(bad, i)
                                  ELSE NilCRDChartOptions]]]

\* a package list of n packages: the manifest first, manifests without fault after it
PackageList(bad, crd, n) ==
    IF n = 0 THEN <<>>
    ELSE <<MakePkg(bad, crd)>> \o [i \in 1..(n - 1) |-> MakePkg({}, <<>>)]

\* the lengths of the package lists tried with a manifest: every manifest alone, and the
\* manifests without additional chart and with at most one fault in lists of 0..MaxPackages
ListLengths(bad, crd) ==
    IF crd = <<>> /\ Cardinality(bad) <= 1 THEN 0..MaxPackages ELSE {1}

----------------------------------------------------------------------------
(* The validator as a state machine: one call of parsePackageYaml *)

InitValidator ==
    /\ \E crd \in Shapes : \E bad \in FieldSets(crd, MaxViolations) :
         \E n \in ListLengths(bad, crd) : packages = PackageList(bad, crd, n)
    /\ Pkg = MakePkg({}, <<>>)
    /\ assetsVersion = <<>>
    /\ upstreamVersion = <<>>
    /\ versionRule = <<>>
    /\ versions = EmptyVersions
    /\ ChartVersion = <<>>
    /\ AutoGeneratedBumpVersion = NilSemver
    /\ err = Nil
    /\ pc = "ready"

ParsePackageYaml ==
    /\ pc = "ready"
    /\ LET r == parsePackageYaml(Pkg, packages)
       IN  /\ Pkg' = r.Pkg
           /\ err' = r.err
    /\ pc' = "done"
    /\ UNCHANGED <<packages, assetsVersion, upstreamVersion, versionRule, versions,
                   ChartVersion, AutoGeneratedBumpVersion>>

NextValidator == ParsePackageYaml

SpecValidator == InitValidator /\ [][NextValidator]_vars

----------------------------------------------------------------------------
(* Properties of the validator, checked under SpecValidator *)

ValidatedOne == pc = "done" /\ Len(packages) = 1

UpstreamErrors == {errChartURL, errChartRepoCommit, errChartRepoBranch, errChartSubDir}
CRDErrors == {errAdditionalChartWorkDir, errCRDWorkDir, errAdditionalChartCRDValidation}

\* the ten checks of the package and of its primary upstream descriptor, in the stated order
OrderedChecks(p) ==
    << [violated |-> ~p.Auto,                          error |-> errFalseAuto],
       [violated |-> p.Name = "",                      error |-> errPackageName],
       [violated |-> p.Version # NilPtr,               error |-> errPackageChartVersion],
       [violated |-> p.PackageVersion # NilPtr,        error |-> errPackageVersion],
       [violated |-> p.DoNotRelease,                   error |-> errPackegeDoNotRelease],
       [violated |-> p.Chart.WorkingDir = "",          error |-> errChartWorkDir],
       [violated |-> ~HasSuffix(p.Chart.Upstream.URL, GitSuffix),
                                                       error |-> errChartURL],
       [violated |-> p.Chart.Upstream.Commit # NilPtr, error |-> errChartRepoCommit],
       [violated |-> p.Chart.Upstream.ChartRepoBranch = NilPtr,
                                                       error |-> errChartRepoBranch],
       [violated |-> p.Chart.Upstream.Subdirectory = NilPtr,
                                                       error |-> errChartSubDir] >>

ViolatedChecks(p) == {i \in 1..Len(OrderedChecks(p)) : OrderedChecks(p)[i].violated}

\* C3: for a single package the validator returns the error of the first violated check
\* of the ordered list, returns nil only when none is violated, and the ten errors differ.
C3_FirstViolatedCheckWins ==
    ValidatedOne =>
        LET p == packages[1]
            checks == OrderedChecks(p)
            violated == ViolatedChecks(p)
        IN  /\ violated # {} => err = checks[Min(violated)].error
            /\ err = Nil => violated = {}
            /\ Cardinality({checks[i].error : i \in 1..Len(checks)}) = Len(checks)
            /\ Nil \notin {checks[i].error : i \in 1..Len(checks)}

\* a version that is set together with a commit pin: the version is reported
C3_Witness ==
    /\ ValidatedOne
    /\ packages[1].Version # NilPtr
    /\ packages[1].Chart.Upstream.Commit # NilPtr
    /\ Cardinality(ViolatedChecks(packages[1])) = 2
    /\ err = errPackageChartVersion

UpstreamViolated(options) ==
    \/ ~HasSuffix(options.URL, GitSuffix)
    \/ options.Commit # NilPtr
    \/ options.ChartRepoBranch = NilPtr
    \/ options.Subdirectory = NilPtr

CRDViolated(options) ==
    /\ options.set
    /\ \/ options.TemplateDirectory = ""
       \/ options.CRDDirectory = ""
       \/ ~options.AddCRDValidationToMainChart

\* the package passes the ten checks of the package and of its primary upstream descriptor
PassesOrderedChecks(p) == ViolatedChecks(p) = {}

\* C4 as stated: when an earlier additional chart violates a CRD options requirement and a
\* later one violates the upstream check, the upstream check's error is returned.
C4_UpstreamChecksBeforeCRDChecks ==
    (ValidatedOne /\ PassesOrderedChecks(packages[1])) =>
        LET charts == packages[1].AdditionalCharts
        IN  \A i \in 1..Len(charts) : \A j \in (i + 1)..Len(charts) :
                (CRDViolated(charts[i].CRDChartOptions) /\ UpstreamViolated(charts[j].Upstream))
                    => err \in UpstreamErrors

\* C4 amended: the additional charts are checked one after the other, each chart's
\* upstream options and then its CRD chart options, so the error returned is that of the
\* first chart that violates anything: an upstream error when that chart's upstream
\* options are violated, and else a CRD options error, whatever the later charts violate.
C4_ChartByChart ==
    (ValidatedOne /\ PassesOrderedChecks(packages[1])) =>
        LET charts == packages[1].AdditionalCharts
            broken == {i \in 1..Len(charts) : \/ UpstreamViolated(charts[i].Upstream)
                                              \/ CRDViolated(charts[i].CRDChartOptions)}
        IN  IF broken = {} THEN err = Nil
            ELSE IF UpstreamViolated(charts[Min(broken)].Upstream)
                 THEN err \in UpstreamErrors
                 ELSE err \in CRDErrors

\* chart 1 violates a CRD options requirement only, chart 2 the upstream check
C4_Witness ==
    /\ ValidatedOne /\ PassesOrderedChecks(packages[1])
    /\ Len(packages[1].AdditionalCharts) >= 2
    /\ CRDViolated(packages[1].AdditionalCharts[1].CRDChartOptions)
    /\ ~UpstreamViolated(packages[1].AdditionalCharts[1].Upstream)
    /\ UpstreamViolated(packages[1].AdditionalCharts[2].Upstream)
    /\ err \in CRDErrors

====
